---- MODULE Spec2Model ----
(***************************************************************************)
(* ttimer: a stack of running stop watches and a dictionary of nodes keyed  *)
(* by the call path (src/ttimer/timer.py).  Clocks are integers: `now` is   *)
(* time.perf_counter(), `cpu` is time.process_time(); both never decrease.  *)
(***************************************************************************)
EXTENDS Integers, Sequences, FiniteSets, TLC

\* Bounds of the model.
MaxDepth == 2
MaxClock == 2
MaxPush == 3

\* Region names a caller may pass to timer(name).
Names == {"a", "b"}

\* The threads of the process and the names they pass to get_timer(timer_name).
Threads == {"t1", "t2"}
TimerNames == {"abc", "def"}

\* The places in the program of a `with timer:` or `with timer():` that gives
\* no name, as inspect.stack() tells them: the file, the function and the line.
Sites ==
    {[filename |-> <<"app", "jobs.py">>, function |-> "run", lineno |-> 10],
     [filename |-> <<"lib", "jobs.py">>, function |-> "run", lineno |-> 10],
     [filename |-> <<"app", "jobs.py">>, function |-> "run", lineno |-> 12]}

\* Python's None for Node.parent (no stack is the empty tuple).
None == <<>>

VARIABLES
    _watches,   \* Timer._watches: list of StopWatch, innermost last
    _nodes,     \* Timer._nodes: insertion-ordered dict, as the list of its Node values
    now,        \* time.perf_counter()
    cpu,        \* time.process_time()
    ctxs,       \* the with-blocks currently open, innermost last
    entered,    \* the number of with-blocks entered so far
    op,         \* the last step: the call made on the timer and the exception it raised
    result,     \* the value that call returned, when it is a read that returned
    hist,       \* history: per call path, the completed invocations and their elapsed sums
    pushed,     \* history: the call paths pushed since the last clear
    stale,      \* history: the open with-blocks entered before the last clear
    sited,      \* history: the call sites of the unnamed pushes, each with its call path
    held,       \* a record the caller keeps from an earlier read
    this,       \* the Timer the calls are made on; _watches and _nodes are its fields
    timers,     \* the Timer objects of the process, by identity
    _thread_local  \* _thread_local.timers of each thread: the identity under each name, 0 for none

\* The state beside the timer the calls are made on.
aside == <<sited, held, this, timers, _thread_local>>

vars == <<_watches, _nodes, now, cpu, ctxs, entered, op, result, hist, pushed,
          stale, sited, held, this, timers, _thread_local>>

----------------------------------------------------------------------------
\* Call paths of the bounded model.
RECURSIVE PathsOfLen(_)
PathsOfLen(n) ==
    IF n = 0 THEN {<<>>}
    ELSE {Append(p, x) : p \in PathsOfLen(n - 1), x \in Names}

AllPaths == UNION {PathsOfLen(n) : n \in 1..MaxDepth}

Last(s) == s[Len(s)]
Front(s) == SubSeq(s, 1, Len(s) - 1)

----------------------------------------------------------------------------
\* StopWatch

StopWatch(name) ==
    [name |-> name, start |-> <<now, cpu>>, elapsed_time |-> 0, elapsed_cpu_time |-> 0]

\* Mutant: the elapsed cpu time is read off the wall clock.
stop_cpu_as_wall(sw) ==
    [sw EXCEPT !.elapsed_time = now - sw.start[1],
               !.elapsed_cpu_time = now - sw.start[1]]

stop(sw) ==
    [sw EXCEPT !.elapsed_time = now - sw.start[1],
               !.elapsed_cpu_time = cpu - sw.start[2]]

----------------------------------------------------------------------------
\* Record

Record(name) ==
    [name |-> name, count |-> 0, time |-> 0, own_time |-> 0,
     cpu_time |-> 0, own_cpu_time |-> 0]

\* Mutant: a stop adds the elapsed times and leaves the count as it is.
on_stop_no_count(self, stop_watch) ==
    [self EXCEPT !.time = @ + stop_watch.elapsed_time,
                 !.own_time = @ + stop_watch.elapsed_time,
                 !.cpu_time = @ + stop_watch.elapsed_cpu_time,
                 !.own_cpu_time = @ + stop_watch.elapsed_cpu_time]

on_stop(self, stop_watch) ==
    [self EXCEPT !.time = @ + stop_watch.elapsed_time,
                 !.own_time = @ + stop_watch.elapsed_time,
                 !.cpu_time = @ + stop_watch.elapsed_cpu_time,
                 !.own_cpu_time = @ + stop_watch.elapsed_cpu_time,
                 !.count = @ + 1]

\* Mutant: the child's elapsed time is taken off the parent's total.
on_stop_child_total(self, stop_watch) ==
    [self EXCEPT !.time = @ - stop_watch.elapsed_time,
                 !.cpu_time = @ - stop_watch.elapsed_cpu_time]

\* Mutant: the child's elapsed time is added to the parent's own time.
on_stop_child_added(self, stop_watch) ==
    [self EXCEPT !.own_time = @ + stop_watch.elapsed_time,
                 !.own_cpu_time = @ + stop_watch.elapsed_cpu_time]

\* Mutant: the child's elapsed time is taken off the parent's own time twice.
on_stop_child_twice(self, stop_watch) ==
    [self EXCEPT !.own_time = @ - 2 * stop_watch.elapsed_time,
                 !.own_cpu_time = @ - 2 * stop_watch.elapsed_cpu_time]

on_stop_child(self, stop_watch) ==
    [self EXCEPT !.own_time = @ - stop_watch.elapsed_time,
                 !.own_cpu_time = @ - stop_watch.elapsed_cpu_time]

\* Mutant: merge leaves the count of the first record as it is.
merge_keep_count(self, other) ==
    [self EXCEPT !.time = @ + other.time,
                 !.own_time = @ + other.own_time,
                 !.cpu_time = @ + other.cpu_time,
                 !.own_cpu_time = @ + other.own_cpu_time]

merge(self, other) ==
    [self EXCEPT !.time = @ + other.time,
                 !.own_time = @ + other.own_time,
                 !.cpu_time = @ + other.cpu_time,
                 !.own_cpu_time = @ + other.own_cpu_time,
                 !.count = @ + other.count]

----------------------------------------------------------------------------
\* Node; parent is the parent Node, named by its key in the dictionary.

Node(stack, record, parent) ==
    [stack |-> stack, record |-> record, parent |-> parent]

\* dict operations on a list of nodes keyed by their stack
HasKey(nodes, k) == \E i \in DOMAIN nodes : nodes[i].stack = k
IndexOf(nodes, k) == CHOOSE i \in DOMAIN nodes : nodes[i].stack = k
Get(nodes, k) == IF HasKey(nodes, k) THEN k ELSE None

----------------------------------------------------------------------------
\* Timer

\* Mutant: a name already on the stack is not repeated in the call path.
_stack_collapsed ==
    LET names == [i \in DOMAIN _watches |-> _watches[i].name]
        first(i) == \A j \in 1..(i - 1) : names[j] # names[i]
        kept == {i \in DOMAIN names : first(i)}
    IN  [k \in 1..Cardinality(kept) |->
            names[CHOOSE i \in kept : Cardinality({j \in kept : j <= i}) = k]]

_stack == [i \in DOMAIN _watches |-> _watches[i].name]

_current_watch == _watches[Len(_watches)]

_current_node == _nodes[IndexOf(_nodes, _stack)]

\* Mutant: the node is created on every push, replacing the one already there.
_push_always(name) ==
    LET parent == Get(_nodes, _stack)
        watches == Append(_watches, StopWatch(name))
        stack == [i \in DOMAIN watches |-> watches[i].name]
        node == Node(stack, Record(Last(stack)), parent)
    IN  [watches |-> watches,
         nodes |-> IF ~HasKey(_nodes, stack)
                   THEN Append(_nodes, node)
                   ELSE [_nodes EXCEPT ![IndexOf(_nodes, stack)] = node]]

\* Mutant: the parent is looked up after the watch is appended.
_push_late_parent(name) ==
    LET watches == Append(_watches, StopWatch(name))
        stack == [i \in DOMAIN watches |-> watches[i].name]
        parent == Get(_nodes, stack)
    IN  [watches |-> watches,
         nodes |-> IF ~HasKey(_nodes, stack)
                   THEN Append(_nodes, Node(stack, Record(Last(stack)), parent))
                   ELSE _nodes]

\* The stack, the watches and the nodes after _push(name).
_push(name) ==
    LET parent == Get(_nodes, _stack)
        watches == Append(_watches, StopWatch(name))
        stack == [i \in DOMAIN watches |-> watches[i].name]
    IN  [watches |-> watches,
         nodes |-> IF ~HasKey(_nodes, stack)
                   THEN Append(_nodes, Node(stack, Record(Last(stack)), parent))
                   ELSE _nodes]

\* Mutant: _pop() on an empty stack returns without a word.
_pop_unchecked ==
    IF _watches = <<>>
    THEN {[raised |-> "none", watches |-> _watches, nodes |-> _nodes]}
    ELSE LET sw == stop(_watches[Len(_watches)])
             i == IndexOf(_nodes, _stack)
             parent == _nodes[i].parent
             stopped == [_nodes EXCEPT ![i].record = on_stop(@, sw)]
         IN  {[raised |-> "none",
               watches |-> Front(_watches),
               nodes |-> IF parent # None
                         THEN [stopped EXCEPT ![IndexOf(_nodes, parent)].record =
                                                  on_stop_child(@, sw)]
                         ELSE stopped]}

\* The outcomes of _pop(): the exception raised ("none" when it returns), the
\* watches and the nodes it leaves.  On an empty stack _current_watch fails its
\* assert; a build that strips asserts fails at self._watches[-1] instead.
_pop ==
    IF _watches = <<>>
    THEN {[raised |-> e, watches |-> _watches, nodes |-> _nodes] :
              e \in {"AssertionError", "IndexError"}}
    ELSE IF ~HasKey(_nodes, _stack)
    THEN {[raised |-> "KeyError", watches |-> _watches, nodes |-> _nodes]}
    ELSE LET sw == stop(_current_watch)
             i == IndexOf(_nodes, _stack)
             parent == _current_node.parent
             stopped == [_nodes EXCEPT ![i].record = on_stop(@, sw)]
         IN  {[raised |-> "none",
               watches |-> Front(_watches),
               nodes |-> IF parent # None
                         THEN [stopped EXCEPT ![IndexOf(_nodes, parent)].record =
                                                  on_stop_child(@, sw)]
                         ELSE stopped]}

\* The nodes whose key ends in item, in dictionary order.
Candidates(item) == SelectSeq(_nodes, LAMBDA n : Last(n.stack) = item)

RECURSIVE MergeAll(_, _)
MergeAll(record, cs) ==
    IF cs = <<>> THEN record
    ELSE MergeAll(merge(record, Head(cs).record), Tail(cs))

\* Mutant: several paths ending in item are refused.
getitem_ambiguous(item) ==
    LET candidates == Candidates(item)
    IN  IF candidates = <<>>
        THEN [raised |-> "KeyError", value |-> None, alias |-> None, nodes |-> _nodes]
        ELSE IF Len(candidates) > 1
        THEN [raised |-> "AmbiguousName", value |-> None, alias |-> None, nodes |-> _nodes]
        ELSE [raised |-> "none", value |-> candidates[1].record,
              alias |-> None, nodes |-> _nodes]

\* Mutant: a name no path ends in yields an empty record.
getitem_default(item) ==
    LET candidates == Candidates(item)
    IN  IF candidates = <<>>
        THEN [raised |-> "none", value |-> Record(item), alias |-> None, nodes |-> _nodes]
        ELSE [raised |-> "none",
              value |-> MergeAll(candidates[1].record, Tail(candidates)),
              alias |-> None, nodes |-> _nodes]

\* Mutant: the other records are merged into the first candidate's record
\* itself, which is returned.
getitem_no_copy(item) ==
    LET candidates == Candidates(item)
        merged == MergeAll(candidates[1].record, Tail(candidates))
    IN  IF candidates = <<>>
        THEN [raised |-> "KeyError", value |-> None, alias |-> None, nodes |-> _nodes]
        ELSE [raised |-> "none", value |-> merged,
              alias |-> candidates[1].stack,
              nodes |-> [_nodes EXCEPT
                            ![IndexOf(_nodes, candidates[1].stack)].record = merged]]

\* timer[item]: the exception raised ("none" when it returns), the record
\* returned, the node whose record the returned object is (None: copy.copy
\* made a new object, which the merges change) and the nodes after the call.
__getitem__(item) ==
    LET candidates == Candidates(item)
    IN  IF candidates = <<>>
        THEN [raised |-> "KeyError", value |-> None, alias |-> None, nodes |-> _nodes]
        ELSE [raised |-> "none",
              value |-> MergeAll(candidates[1].record, Tail(candidates)),
              alias |-> None, nodes |-> _nodes]

\* Mutant: each leaf name at the place of its last key.
RECURSIVE LeafNames_last(_, _)
LeafNames_last(nodes, seen) ==
    IF nodes = <<>> THEN <<>>
    ELSE LET k == Last(nodes[Len(nodes)].stack)
         IN  IF k \in seen THEN LeafNames_last(Front(nodes), seen)
             ELSE LeafNames_last(Front(nodes), seen \cup {k}) \o <<k>>

\* The keys of {k[-1]: None for k in self._nodes.keys()}: each leaf name once,
\* at the place of its first key.
RECURSIVE LeafNames(_, _)
LeafNames(nodes, seen) ==
    IF nodes = <<>> THEN <<>>
    ELSE LET k == Last(Head(nodes).stack)
         IN  IF k \in seen THEN LeafNames(Tail(nodes), seen)
             ELSE <<k>> \o LeafNames(Tail(nodes), seen \cup {k})

records ==
    LET ks == LeafNames(_nodes, {})
    IN  [i \in DOMAIN ks |-> __getitem__(ks[i]).value]

\* For each record of Timer.records, the node whose record it is (None: a new object).
records_alias ==
    LET ks == LeafNames(_nodes, {})
    IN  [i \in DOMAIN ks |-> __getitem__(ks[i]).alias]

\* The nodes after Timer.records: self[k] reads and writes the nodes whose key
\* ends in k only, so each node is as the lookup of its own leaf name leaves it.
records_nodes ==
    [i \in DOMAIN _nodes |-> __getitem__(Last(_nodes[i].stack)).nodes[i]]

trees == SelectSeq(_nodes, LAMBDA n : n.parent = None)

\* RenderTree(root): the nodes under root in pre-order, children in the order
\* in which they were attached.
RECURSIVE RenderTree(_)
RECURSIVE RenderAll(_)
RenderTree(root) ==
    <<root>> \o RenderAll(SelectSeq(_nodes, LAMBDA n : n.parent = root.stack))
RenderAll(roots) ==
    IF roots = <<>> THEN <<>>
    ELSE RenderTree(Head(roots)) \o RenderAll(Tail(roots))

\* The (stack, record) pairs _iterate_nodes yields.
_iterate_nodes(flat) ==
    IF flat
    THEN LET rs == records
         IN  [i \in DOMAIN rs |-> [stack |-> <<"">>, rec |-> rs[i]]]
    ELSE LET ns == RenderAll(trees)
         IN  [i \in DOMAIN ns |-> [stack |-> ns[i].stack, rec |-> ns[i].record]]

asdict(rec) ==
    [name |-> rec.name, count |-> rec.count, time |-> rec.time,
     own_time |-> rec.own_time, cpu_time |-> rec.cpu_time,
     own_cpu_time |-> rec.own_cpu_time]

to_dict(flat) ==
    LET it == _iterate_nodes(flat)
    IN  [i \in DOMAIN it |->
            IF flat THEN asdict(it[i].rec)
            ELSE [name |-> it[i].rec.name, count |-> it[i].rec.count,
                  time |-> it[i].rec.time, own_time |-> it[i].rec.own_time,
                  cpu_time |-> it[i].rec.cpu_time,
                  own_cpu_time |-> it[i].rec.own_cpu_time,
                  stack |-> it[i].stack]]

\* os.path.basename(filename), the file name being the sequence of its parts.
basename(filename) == filename[Len(filename)]

\* _get_caller_name(index) for the frame callee that inspect.stack()[index]
\* gives; ok is false when inspect.stack()[index] raises.
_get_caller_name(callee, ok) ==
    IF ok
    THEN callee.function \o "(" \o basename(callee.filename) \o ":"
             \o ToString(callee.lineno) \o ")"
    ELSE "(unknown)"

----------------------------------------------------------------------------
\* The program: calls made on one Timer by one thread.

\* What a call that is no read hands back (None, or the timer itself).
NoResult == [kind |-> "none", value |-> None]

NoHist == [p \in AllPaths |-> [n |-> 0, time |-> 0, cpu_time |-> 0]]

\* Nothing kept from a read.
NoHeld == [kind |-> "none", alias |-> None, value |-> None, matched |-> 0]

\* Timer(): the fields of a new Timer.
Timer == [watches |-> <<>>, nodes |-> <<>>]

Init ==
    /\ _watches = <<>>
    /\ _nodes = <<>>
    /\ now = 0
    /\ cpu = 0
    /\ ctxs = <<>>
    /\ entered = 0
    /\ op = [kind |-> "init", arg |-> "", raised |-> "none"]
    /\ result = NoResult
    /\ hist = NoHist
    /\ pushed = {}
    /\ stale = 0
    /\ sited = {}
    /\ held = NoHeld
    /\ this = 1
    /\ timers = <<Timer>>
    /\ _thread_local = [th \in Threads |-> [nm \in TimerNames |-> 0]]

\* Both clocks advance between calls; the process clock no faster than the wall clock.
Tick ==
    /\ now < MaxClock
    /\ now' = now + 1
    /\ \E d \in {0, 1} : cpu' = cpu + d
    /\ op' = [kind |-> "tick", arg |-> "", raised |-> "none"]
    /\ result' = NoResult
    /\ UNCHANGED <<_watches, _nodes, ctxs, entered, hist, pushed, stale, aside>>

\* with timer(name): / with timer: / @timer -- TimerContext.__enter__, Timer.__enter__
Enter(name) ==
    LET path == Append(_stack, name)
        after == _push(name)
    IN  /\ Len(ctxs) < MaxDepth
        /\ entered < MaxPush
        /\ entered' = entered + 1
        /\ _watches' = after.watches
        /\ _nodes' = after.nodes
        /\ ctxs' = Append(ctxs, [timer |-> this, name |-> name, stack0 |-> _stack])
        /\ pushed' = pushed \cup {path}
        /\ op' = [kind |-> "push", arg |-> name, raised |-> "none"]
        /\ result' = NoResult
        /\ UNCHANGED <<now, cpu, hist, stale, aside>>

\* with timer: / with timer(): at a place of the program -- the region is
\* named by _get_caller_name(2), inspect.stack() giving the frame of the place.
EnterAuto(site) ==
    LET name == _get_caller_name(site, TRUE)
        after == _push(name)
    IN  /\ Len(ctxs) < MaxDepth
        /\ entered < MaxPush
        /\ entered' = entered + 1
        /\ _watches' = after.watches
        /\ _nodes' = after.nodes
        /\ ctxs' = Append(ctxs, [timer |-> this, name |-> name, stack0 |-> _stack])
        /\ pushed' = pushed \cup {Append(_stack, name)}
        /\ sited' = sited \cup {[site |-> site, name |-> name]}
        /\ op' = [kind |-> "push", arg |-> name, raised |-> "none"]
        /\ result' = NoResult
        /\ UNCHANGED <<now, cpu, hist, stale, held, this, timers, _thread_local>>

\* The end of the innermost with-block, whose body returned or raised (how):
\* TimerContext.__exit__(*exc), Timer.__exit__(*exc), which call _pop().
Exit(how) ==
    /\ ctxs # <<>>
    /\ Last(ctxs).timer = this
    /\ \E o \in _pop :
        /\ _watches' = o.watches
        /\ _nodes' = o.nodes
        /\ op' = [kind |-> "pop", arg |-> how, raised |-> o.raised]
        /\ hist' = IF o.raised = "none" /\ _stack \in DOMAIN hist
                   THEN [hist EXCEPT ![_stack] =
                            [n |-> @.n + 1,
                             time |-> @.time + (now - Last(_watches).start[1]),
                             cpu_time |-> @.cpu_time + (cpu - Last(_watches).start[2])]]
                   ELSE hist
    /\ ctxs' = Front(ctxs)
    /\ stale' = IF stale = Len(ctxs) THEN stale - 1 ELSE stale
    /\ result' = NoResult
    /\ UNCHANGED <<now, cpu, entered, pushed, aside>>

\* Mutant: clear() drops the records and leaves the open regions on the stack.
Clear_nodes_only ==
    /\ _watches' = _watches
    /\ _nodes' = <<>>
    /\ hist' = NoHist
    /\ pushed' = {}
    /\ op' = [kind |-> "clear", arg |-> "", raised |-> "none"]
    /\ stale' = Len(ctxs)
    /\ result' = NoResult
    /\ UNCHANGED <<now, cpu, ctxs, entered, aside>>

\* Mutant: clear() empties the stack and keeps the records.
Clear_stack_only ==
    /\ _watches' = <<>>
    /\ _nodes' = _nodes
    /\ hist' = hist
    /\ pushed' = pushed
    /\ op' = [kind |-> "clear", arg |-> "", raised |-> "none"]
    /\ stale' = Len(ctxs)
    /\ result' = NoResult
    /\ UNCHANGED <<now, cpu, ctxs, entered, aside>>

Clear ==
    /\ _watches' = <<>>
    /\ _nodes' = <<>>
    /\ hist' = NoHist
    /\ pushed' = {}
    /\ op' = [kind |-> "clear", arg |-> "", raised |-> "none"]
    /\ stale' = Len(ctxs)
    /\ result' = NoResult
    /\ UNCHANGED <<now, cpu, ctxs, entered, aside>>

GetItem(item) ==
    LET r == __getitem__(item)
    IN  /\ op' = [kind |-> "getitem", arg |-> item, raised |-> r.raised]
        /\ result' = IF r.raised = "none"
                     THEN [kind |-> "record", value |-> r.value]
                     ELSE NoResult
        /\ _nodes' = r.nodes
        /\ UNCHANGED <<_watches, now, cpu, ctxs, entered, hist, pushed, stale, aside>>

Records ==
    /\ op' = [kind |-> "records", arg |-> "", raised |-> "none"]
    /\ result' = [kind |-> "records", value |-> records]
    /\ _nodes' = records_nodes
    /\ UNCHANGED <<_watches, now, cpu, ctxs, entered, hist, pushed, stale, aside>>

ToDict(flat) ==
    /\ op' = [kind |-> "to_dict", arg |-> IF flat THEN "flat" ELSE "tree",
              raised |-> "none"]
    /\ result' = [kind |-> "to_dict", value |-> to_dict(flat)]
    /\ _nodes' = IF flat THEN records_nodes ELSE _nodes
    /\ UNCHANGED <<_watches, now, cpu, ctxs, entered, hist, pushed, stale, aside>>

\* r = timer[item], kept by the caller: held is the object returned, with the
\* number of call paths that ended in item.
KeepItem(item) ==
    LET r == __getitem__(item)
    IN  /\ r.raised = "none"
        /\ op' = [kind |-> "getitem", arg |-> item, raised |-> r.raised]
        /\ result' = [kind |-> "record", value |-> r.value]
        /\ held' = [kind |-> "record", alias |-> r.alias, value |-> r.value,
                    matched |-> Len(Candidates(item))]
        /\ _nodes' = r.nodes
        /\ UNCHANGED <<_watches, now, cpu, ctxs, entered, hist, pushed, stale,
                       sited, this, timers, _thread_local>>

\* r = timer.records[i], kept by the caller.
KeepRecords(i) ==
    /\ i \in DOMAIN records
    /\ op' = [kind |-> "records", arg |-> "", raised |-> "none"]
    /\ result' = [kind |-> "records", value |-> records]
    /\ held' = [kind |-> "records", alias |-> records_alias[i], value |-> records[i],
                matched |-> Len(Candidates(records[i].name))]
    /\ _nodes' = records_nodes
    /\ UNCHANGED <<_watches, now, cpu, ctxs, entered, hist, pushed, stale,
                   sited, this, timers, _thread_local>>

\* The Timer of identity id: its fields are _watches and _nodes while the
\* calls are made on it.
TimerAt(id) ==
    IF id = this THEN [watches |-> _watches, nodes |-> _nodes] ELSE timers[id]

\* Mutant: the timers are looked up by name in the dictionaries of all threads.
get_timer_any_thread(thread, timer_name) ==
    IF \E th \in Threads : _thread_local[th][timer_name] # 0
    THEN LET th == CHOOSE th \in Threads : _thread_local[th][timer_name] # 0
         IN  [thread_local |-> [_thread_local EXCEPT ![thread][timer_name] =
                                                        _thread_local[th][timer_name]],
              timers |-> timers,
              value |-> _thread_local[th][timer_name]]
    ELSE [thread_local |-> [_thread_local EXCEPT ![thread][timer_name] = Len(timers) + 1],
          timers |-> Append(timers, Timer),
          value |-> Len(timers) + 1]

\* get_timer(timer_name) called by thread: the dictionaries of the threads and
\* the Timer objects after the call, and the identity of the Timer returned.
\* A thread with no dictionary yet, or an empty one, has 0 under every name.
get_timer(thread, timer_name) ==
    IF _thread_local[thread][timer_name] = 0
    THEN [thread_local |-> [_thread_local EXCEPT ![thread][timer_name] = Len(timers) + 1],
          timers |-> Append(timers, Timer),
          value |-> Len(timers) + 1]
    ELSE [thread_local |-> _thread_local,
          timers |-> timers,
          value |-> _thread_local[thread][timer_name]]

\* timer = get_timer(timer_name) in thread: the calls that follow are made on
\* the Timer returned.
GetTimer(thread, timer_name) ==
    LET g == get_timer(thread, timer_name)
        parked == [g.timers EXCEPT ![this] = [watches |-> _watches, nodes |-> _nodes]]
    IN  /\ _thread_local' = g.thread_local
        /\ timers' = [parked EXCEPT ![g.value] = Timer]
        /\ _watches' = parked[g.value].watches
        /\ _nodes' = parked[g.value].nodes
        /\ this' = g.value
        /\ op' = [kind |-> "get_timer", arg |-> timer_name, raised |-> "none",
                  thread |-> thread]
        /\ result' = [kind |-> "timer", value |-> g.value]
        /\ UNCHANGED <<now, cpu, ctxs, entered, hist, pushed, stale, sited, held>>

\* The caller turns back to the Timer of the innermost open with-block, whose
\* TimerContext holds it (self.timer).
Back ==
    /\ ctxs # <<>>
    /\ Last(ctxs).timer # this
    /\ LET id == Last(ctxs).timer
       IN  /\ timers' = [timers EXCEPT ![this] = [watches |-> _watches, nodes |-> _nodes],
                                       ![id] = Timer]
           /\ _watches' = timers[id].watches
           /\ _nodes' = timers[id].nodes
           /\ this' = id
    /\ op' = [kind |-> "turn", arg |-> "", raised |-> "none"]
    /\ result' = NoResult
    /\ UNCHANGED <<now, cpu, ctxs, entered, hist, pushed, stale, sited, held,
                   _thread_local>>

\* The timing engine alone: regions are entered and left, time passes, the
\* timer is cleared.
Next ==
    \/ Tick
    \/ \E name \in Names : Enter(name)
    \/ \E how \in {"return", "raise"} : Exit(how)
    \/ Clear

Spec == Init /\ [][Next]_vars

\* The timing engine and the reads made of it at any moment.
NextRead ==
    \/ Tick
    \/ \E name \in Names : Enter(name)
    \/ \E how \in {"return", "raise"} : Exit(how)
    \/ Clear
    \/ \E item \in Names : GetItem(item)
    \/ Records
    \/ \E flat \in BOOLEAN : ToDict(flat)

SpecRead == Init /\ [][NextRead]_vars

\* The timing engine of a caller that never clears the timer.
NextNoClear ==
    \/ Tick
    \/ \E name \in Names : Enter(name)
    \/ \E how \in {"return", "raise"} : Exit(how)

SpecNoClear == Init /\ [][NextNoClear]_vars

\* Threads that get their timers by name from the registry and time the
\* region "a" (a decorated function of that name) on them.
NextRegistry ==
    \/ \E thread \in Threads, timer_name \in TimerNames : GetTimer(thread, timer_name)
    \/ Back
    \/ Enter("a")
    \/ \E how \in {"return", "raise"} : Exit(how)

SpecRegistry == Init /\ [][NextRegistry]_vars

\* A caller whose with-blocks give no name.
NextAuto ==
    \/ Tick
    \/ \E site \in Sites : EnterAuto(site)
    \/ \E how \in {"return", "raise"} : Exit(how)

SpecAuto == Init /\ [][NextAuto]_vars

\* A caller that times the region "a", within itself too, reads the timer
\* between the pushes and pops and keeps what a read returned.
NextKeep ==
    \/ Tick
    \/ Enter("a")
    \/ \E how \in {"return", "raise"} : Exit(how)
    \/ \E item \in Names : KeepItem(item)
    \/ \E i \in 1..MaxPush : KeepRecords(i)
    \/ \E flat \in BOOLEAN : ToDict(flat)

SpecKeep == Init /\ [][NextKeep]_vars

----------------------------------------------------------------------------
\* Properties.

Keys == {_nodes[i].stack : i \in DOMAIN _nodes}

RecordAt(k) == _nodes[IndexOf(_nodes, k)].record

\* The nodes whose call path is p plus one more name.
KidsOf(p) ==
    {i \in DOMAIN _nodes :
        Len(_nodes[i].stack) = Len(p) + 1 /\ Front(_nodes[i].stack) = p}

\* The sum of a record field over a set of nodes.
RECURSIVE SumField(_, _)
SumField(S, f) ==
    IF S = {} THEN 0
    ELSE LET i == CHOOSE j \in S : TRUE
         IN  _nodes[i].record[f] + SumField(S \ {i}, f)

\* The region of call path p is open: p is a prefix of the active path.
IsOpen(p) == Len(p) <= Len(_stack) /\ SubSeq(_stack, 1, Len(p)) = p

\* C1: every record's own time is its total time minus the total times of the
\* records one name below it, for wall and cpu time alike, in every state; a
\* record with no record below it has own time equal to its total time.
OwnTimeAccounting ==
    \A i \in DOMAIN _nodes :
        LET r == _nodes[i].record
            kids == KidsOf(_nodes[i].stack)
        IN  /\ r.own_time = r.time - SumField(kids, "time")
            /\ r.own_cpu_time = r.cpu_time - SumField(kids, "cpu_time")
            /\ kids = {} => r.own_time = r.time /\ r.own_cpu_time = r.cpu_time

\* A closed parent that spent time of its own and time in a child, next to a leaf.
OwnTimeAccountingWitness ==
    \E i, j \in DOMAIN _nodes :
        /\ j \in KidsOf(_nodes[i].stack)
        /\ KidsOf(_nodes[j].stack) = {}
        /\ _nodes[j].record.time > 0
        /\ _nodes[i].record.own_time > 0
        /\ _nodes[i].record.time = _nodes[i].record.own_time + _nodes[j].record.time
        /\ _nodes[j].record.cpu_time > 0

\* C2 as stated: every record has total time >= own time >= 0 in every state,
\* open regions included.
TotalGeOwnGeZero ==
    \A i \in DOMAIN _nodes :
        LET r == _nodes[i].record
        IN  /\ r.time >= r.own_time /\ r.own_time >= 0
            /\ r.cpu_time >= r.own_cpu_time /\ r.own_cpu_time >= 0

\* C2 amended: every record has total time >= own time in every state, and
\* own time >= 0 whenever its region is not open.
TotalGeOwnAndClosedOwnGeZero ==
    \A i \in DOMAIN _nodes :
        LET r == _nodes[i].record
        IN  /\ r.time >= r.own_time
            /\ r.cpu_time >= r.own_cpu_time
            /\ ~IsOpen(_nodes[i].stack) => r.own_time >= 0 /\ r.own_cpu_time >= 0

\* An open region whose own time is negative beside a closed one with a child.
ClosedOwnGeZeroWitness ==
    \E i, j \in DOMAIN _nodes :
        /\ ~IsOpen(_nodes[i].stack)
        /\ j \in KidsOf(_nodes[i].stack)
        /\ _nodes[j].record.time > 0
        /\ _nodes[i].record.time > _nodes[i].record.own_time

\* C3: once every region is closed there is one record per call path pushed,
\* its count is the number of completed invocations of that path and its total
\* time the sum of their elapsed times.
RepeatedInvocationAggregation ==
    ctxs = <<>> =>
        /\ Cardinality(Keys) = Len(_nodes)
        /\ Keys = pushed
        /\ \A p \in AllPaths :
              IF hist[p].n = 0 THEN p \notin Keys
              ELSE /\ p \in Keys
                   /\ RecordAt(p).count = hist[p].n
                   /\ RecordAt(p).time = hist[p].time
                   /\ RecordAt(p).cpu_time = hist[p].cpu_time

\* A path invoked twice for a positive time, every region closed.
RepeatedInvocationWitness ==
    /\ ctxs = <<>>
    /\ \E i \in DOMAIN _nodes :
          /\ _nodes[i].record.count = 2
          /\ _nodes[i].record.time = 2
          /\ _nodes[i].record.cpu_time = 1

\* C4: the nodes are the call paths pushed since the last clear, one each; a
\* node's record is named by the last name of its path; a node of a path of
\* one name has no parent, and a longer one the node of the path less its last name.
TreeTopology ==
    /\ Keys = pushed
    /\ Cardinality(Keys) = Len(_nodes)
    /\ \A i \in DOMAIN _nodes :
          LET n == _nodes[i]
          IN  /\ n.stack # <<>>
              /\ n.record.name = Last(n.stack)
              /\ Len(n.stack) = 1 => n.parent = None
              /\ Len(n.stack) > 1 => n.parent = Front(n.stack) /\ n.parent \in Keys

\* a > b and a > a and then no more: three nodes, two of them under a.
TreeTopologyWitness ==
    /\ Len(_nodes) = 3
    /\ Keys = {<<"a">>, <<"a", "b">>, <<"a", "a">>}
    /\ ctxs = <<>>

\* The nodes whose call path ends in name.
LeafSet(name) == {i \in DOMAIN _nodes : Last(_nodes[i].stack) = name}

LeafNameSet == {Last(_nodes[i].stack) : i \in DOMAIN _nodes}

\* The place in the dictionary of the first path ending in name.
FirstOf(name) == CHOOSE i \in LeafSet(name) : \A j \in LeafSet(name) : i <= j

StatFields == {"count", "time", "own_time", "cpu_time", "own_cpu_time"}

\* C5 as stated: timer[name] signals AmbiguousName whenever two or more paths
\* end in name, and returns a record only when exactly one does.
LookupSignalsAmbiguousName ==
    op.kind = "getitem" =>
        /\ Cardinality(LeafSet(op.arg)) >= 2 => op.raised = "AmbiguousName"
        /\ op.raised = "none" => Cardinality(LeafSet(op.arg)) = 1

\* C5 amended: timer[name] never signals AmbiguousName; whenever one or more
\* paths end in name, two or more included, it returns a record, named name.
LookupNeverAmbiguous ==
    (op.kind = "getitem" /\ Cardinality(LeafSet(op.arg)) >= 1) =>
        /\ op.raised = "none"
        /\ result.kind = "record"
        /\ result.value.name = op.arg

\* timer[name] has returned with two paths ending in name.
LookupNeverAmbiguousWitness ==
    /\ op.kind = "getitem"
    /\ Cardinality(LeafSet(op.arg)) = 2
    /\ op.raised = "none"
    /\ result.kind = "record"

\* C6: the record timer[name] returns carries, field by field, the sum over
\* all the records whose call path ends in name.
LookupSumsSameLeaf ==
    (op.kind = "getitem" /\ op.raised = "none") =>
        \A f \in StatFields : result.value[f] = SumField(LeafSet(op.arg), f)

\* b under a once and b at top level once: timer["b"].count = 2.
LookupSumsWitness ==
    /\ op = [kind |-> "getitem", arg |-> "b", raised |-> "none"]
    /\ Keys = {<<"a">>, <<"a", "b">>, <<"b">>}
    /\ RecordAt(<<"a", "b">>).count = 1
    /\ RecordAt(<<"b">>).count = 1
    /\ RecordAt(<<"a", "b">>).time = 1
    /\ RecordAt(<<"b">>).time = 1
    /\ result.value.count = 2

\* The flat views: Timer.records and to_dict(flat=True).
IsFlatView ==
    \/ op.kind = "records"
    \/ op.kind = "to_dict" /\ op.arg = "flat"

\* C7: a flat view holds one record per leaf name of the timer, ordered by the
\* first creation of a path ending in the name, each with the counts and the
\* total times of the paths ending in it summed.
FlattenOnePerLeafName ==
    IsFlatView =>
        LET v == result.value
        IN  /\ Len(v) = Cardinality(LeafNameSet)
            /\ \A i \in DOMAIN v :
                  /\ v[i].name \in LeafNameSet
                  /\ v[i].count = SumField(LeafSet(v[i].name), "count")
                  /\ v[i].time = SumField(LeafSet(v[i].name), "time")
                  /\ v[i].cpu_time = SumField(LeafSet(v[i].name), "cpu_time")
            /\ \A i, j \in DOMAIN v :
                  i < j => FirstOf(v[i].name) < FirstOf(v[j].name)

\* a, then b > a: Timer.records is a (count 2) and then b.
FlattenWitness ==
    /\ op.kind = "records"
    /\ [i \in DOMAIN _nodes |-> _nodes[i].stack] = <<<<"a">>, <<"b">>, <<"b", "a">>>>
    /\ Len(result.value) = 2
    /\ result.value[1].name = "a" /\ result.value[1].count = 2
    /\ result.value[2].name = "b" /\ result.value[2].count = 1

\* A with-block ends: its __exit__ runs.
IsExit == Len(ctxs') < Len(ctxs)

\* The count recorded for call path k, 0 when it has no record.
CountAt(nodes, k) ==
    IF HasKey(nodes, k) THEN nodes[IndexOf(nodes, k)].record.count ELSE 0

\* C8: _pop() on an empty stack signals an error at that call and leaves the
\* stack and every record as they were.
PopOnEmptyStackFails ==
    [][(IsExit /\ _watches = <<>>) =>
          /\ op'.kind = "pop"
          /\ op'.raised \in {"AssertionError", "IndexError"}
          /\ UNCHANGED <<_watches, _nodes>>]_vars

\* A pop has just failed on an empty stack of a timer that holds records.
PopOnEmptyStackWitness ==
    /\ op.kind = "pop"
    /\ op.raised \in {"AssertionError", "IndexError"}
    /\ _watches = <<>>
    /\ _nodes # <<>>

\* C9: timer[name] with no path ending in name raises KeyError and leaves the
\* stack and the records as they were.
LookupMissingRaisesKeyError ==
    [][(op'.kind = "getitem" /\ LeafSet(op'.arg) = {}) =>
          /\ op'.raised = "KeyError"
          /\ UNCHANGED <<_watches, _nodes>>]_vars

\* timer["b"] has raised KeyError on a timer that holds a record and an open region.
LookupMissingWitness ==
    /\ op = [kind |-> "getitem", arg |-> "b", raised |-> "KeyError"]
    /\ _nodes # <<>>
    /\ _watches # <<>>

\* C10: the end of a with-block, normal or by an exception, pops its region
\* once: the pop succeeds, the active stack is again the stack of just before
\* the block was entered, and the count of the region's record goes up by one.
WithBlockPopsExactlyOnce ==
    [][IsExit =>
          LET c == Last(ctxs)
              p == Append(c.stack0, c.name)
          IN  /\ op'.raised = "none"
              /\ _stack' = c.stack0
              /\ CountAt(_nodes', p) = CountAt(_nodes, p) + 1]_vars

\* A with-block begins: its __enter__ runs.
IsEnter == Len(ctxs') > Len(ctxs)

\* The names of the open regions, outermost first.
ActivePath == [i \in DOMAIN _watches |-> _watches[i].name]

\* The place of call path k among the nodes.
At(nodes, k) == CHOOSE i \in DOMAIN nodes : nodes[i].stack = k

\* C11: recursion is not collapsed.  A push of a name that is already on the
\* stack makes the active path the outer path plus the name, with a record of
\* its own beside the outer one, which the push leaves as it is; and a pop of a
\* region whose name is on the stack below it adds one to the count, and the
\* elapsed time to the total, of the record of the full active path and of no
\* other record.
RecursionNotCollapsed ==
    [][/\ (IsEnter /\ \E i \in DOMAIN _watches : _watches[i].name = op'.arg) =>
             LET outer == ActivePath
                 inner == Append(ActivePath, op'.arg)
             IN  /\ ActivePath' = inner
                 /\ HasKey(_nodes, outer)
                 /\ HasKey(_nodes', outer) /\ HasKey(_nodes', inner)
                 /\ At(_nodes', inner) # At(_nodes', outer)
                 /\ _nodes'[At(_nodes', inner)].parent = outer
                 /\ _nodes'[At(_nodes', outer)].record = _nodes[At(_nodes, outer)].record
       /\ (/\ IsExit
           /\ op'.raised = "none"
           /\ \E i \in 1..(Len(_watches) - 1) : _watches[i].name = Last(_watches).name) =>
             LET dt == now - Last(_watches).start[1]
             IN  \A i \in DOMAIN _nodes :
                    LET k == _nodes[i].stack
                        r == _nodes[i].record
                        after == _nodes'[At(_nodes', k)].record
                    IN  /\ HasKey(_nodes', k)
                        /\ after.count = r.count + (IF k = ActivePath THEN 1 ELSE 0)
                        /\ after.time = r.time + (IF k = ActivePath THEN dt ELSE 0)]_vars

\* a > a, both closed: the outer a ran for 2 and the inner a for 1, once each.
RecursionNotCollapsedWitness ==
    /\ ctxs = <<>>
    /\ HasKey(_nodes, <<"a">>) /\ HasKey(_nodes, <<"a", "a">>)
    /\ RecordAt(<<"a">>).count = 1 /\ RecordAt(<<"a">>).time = 2
    /\ RecordAt(<<"a", "a">>).count = 1 /\ RecordAt(<<"a", "a">>).time = 1

\* C12 as stated: every record in the timer has count >= 1, in every state
\* from the one in which it is created.
CountAtLeastOne ==
    \A i \in DOMAIN _nodes : _nodes[i].record.count >= 1

\* C12 amended: a record is created with count 0 and has count >= 1 in every
\* state in which its region is not open; its count is 0 only while the first
\* invocation of its call path is still open.
CountAtLeastOneOnceClosed ==
    \A i \in DOMAIN _nodes :
        LET r == _nodes[i].record
        IN  /\ r.count >= 0
            /\ ~IsOpen(_nodes[i].stack) => r.count >= 1
            /\ r.count = 0 => IsOpen(_nodes[i].stack) /\ r.time = 0 /\ r.cpu_time = 0

\* A closed region counted once beside an open one whose count is still 0.
CountAtLeastOneOnceClosedWitness ==
    \E i, j \in DOMAIN _nodes :
        /\ ~IsOpen(_nodes[i].stack) /\ _nodes[i].record.count = 1
        /\ IsOpen(_nodes[j].stack) /\ _nodes[j].record.count = 0

\* The call paths that p begins with, p included, the empty one left out.
Prefixes(p) == {SubSeq(p, 1, n) : n \in 1..Len(p)}

\* C18: in every state reached by pushes, pops and clears every non-empty
\* prefix of the active path is a key of the dictionary of nodes, and so is
\* every non-empty prefix of every key; hence no pop has failed for a missing key.
ActivePathAndKeysPrefixClosed ==
    /\ Prefixes(ActivePath) \subseteq Keys
    /\ \A k \in Keys : Prefixes(k) \subseteq Keys
    /\ op.kind = "pop" => op.raised # "KeyError"

\* A pop of a region two deep has just found its record; the region above it
\* is still open.
ActivePathAndKeysPrefixClosedWitness ==
    /\ op.kind = "pop" /\ op.raised = "none"
    /\ Len(ActivePath) = 1
    /\ \E k \in Keys : Len(k) = 2 /\ Front(k) = ActivePath /\ RecordAt(k).count = 1

\* C19: with a clock that never goes back and pushes and pops in LIFO order,
\* no clear() between them, every record whose call path is not a prefix of the
\* active path has 0 <= own time <= total time, wall and cpu; own time is
\* negative or above the total only in records of open regions.
ClosedOwnWithinTotal ==
    \A i \in DOMAIN _nodes :
        LET r == _nodes[i].record
            open == /\ Len(_nodes[i].stack) <= Len(ActivePath)
                    /\ SubSeq(ActivePath, 1, Len(_nodes[i].stack)) = _nodes[i].stack
        IN  /\ ~open => /\ 0 <= r.own_time /\ r.own_time <= r.time
                        /\ 0 <= r.own_cpu_time /\ r.own_cpu_time <= r.cpu_time
            /\ (r.own_time < 0 \/ r.own_time > r.time) => open
            /\ (r.own_cpu_time < 0 \/ r.own_cpu_time > r.cpu_time) => open

\* b, closed under the open a, ran for a positive time that is all its own;
\* a's own time is negative until a is closed.
ClosedOwnWithinTotalWitness ==
    /\ ActivePath = <<"a">>
    /\ HasKey(_nodes, <<"a", "b">>)
    /\ RecordAt(<<"a", "b">>).own_time = 1 /\ RecordAt(<<"a", "b">>).time = 1
    /\ RecordAt(<<"a">>).own_time = -1 /\ RecordAt(<<"a">>).time = 0

\* C20: clear() leaves no record and no open region, however many with-blocks
\* are open.  The end of each with-block that was open at the clear fails with
\* the error of the empty stack and leaves the stack and the records as they
\* are.  A region entered after the clear, outside any later region, gets the
\* call path of its name alone, with no parent, and its end is counted in that
\* record.
ClearWhileRegionsOpen ==
    [][/\ op'.kind = "clear" =>
             /\ _watches' = <<>> /\ _nodes' = <<>>
             /\ ctxs' = ctxs
       /\ (IsExit /\ 0 < stale /\ stale = Len(ctxs)) =>
             /\ op'.raised \in {"AssertionError", "IndexError"}
             /\ UNCHANGED <<_watches, _nodes>>
       /\ (IsEnter /\ stale = Len(ctxs)) =>
             /\ ActivePath' = <<op'.arg>>
             /\ HasKey(_nodes', ActivePath')
             /\ _nodes'[At(_nodes', ActivePath')].parent = None
       /\ (IsExit /\ stale < Len(ctxs)) =>
             /\ op'.raised = "none"
             /\ Len(ActivePath) = Len(ctxs) - stale
             /\ ActivePath' = Front(ActivePath)
             /\ CountAt(_nodes', ActivePath) = CountAt(_nodes, ActivePath) + 1]_vars

\* The with-block that was open at a clear has just ended in the error of the
\* empty stack; the region entered and left after the clear is the one record,
\* at top level, counted once.
ClearWhileRegionsOpenWitness ==
    /\ op.kind = "pop" /\ op.raised \in {"AssertionError", "IndexError"}
    /\ ctxs = <<>> /\ _watches = <<>>
    /\ Len(_nodes) = 1
    /\ Len(_nodes[1].stack) = 1 /\ _nodes[1].parent = None
    /\ _nodes[1].record.count = 1 /\ _nodes[1].record.time = 1

\* C16: the frame of a pop that succeeds.  It takes the top entry off the
\* stack and nothing else; in the record of the full active path it adds 1 to
\* count and the elapsed wall and cpu times to time, own_time, cpu_time and
\* own_cpu_time; in the record of that path's parent, if it has one, it takes
\* the same times off own_time and own_cpu_time and leaves the other fields; and
\* it leaves the keys, their order, the parent links and every other record as
\* they were.
PopFrame ==
    [][(IsExit /\ op'.raised = "none") =>
          LET top == Last(_watches)
              dt == now - top.start[1]
              dc == cpu - top.start[2]
              path == ActivePath
          IN  /\ _watches' = SubSeq(_watches, 1, Len(_watches) - 1)
              /\ Len(_nodes') = Len(_nodes)
              /\ \A i \in DOMAIN _nodes :
                    LET r == _nodes[i].record
                        after == _nodes'[i].record
                    IN  /\ _nodes'[i].stack = _nodes[i].stack
                        /\ _nodes'[i].parent = _nodes[i].parent
                        /\ after.name = r.name
                        /\ IF _nodes[i].stack = path
                           THEN /\ after.count = r.count + 1
                                /\ after.time = r.time + dt
                                /\ after.own_time = r.own_time + dt
                                /\ after.cpu_time = r.cpu_time + dc
                                /\ after.own_cpu_time = r.own_cpu_time + dc
                           ELSE IF Len(path) > 1 /\ _nodes[i].stack = Front(path)
                           THEN /\ after.count = r.count
                                /\ after.time = r.time
                                /\ after.own_time = r.own_time - dt
                                /\ after.cpu_time = r.cpu_time
                                /\ after.own_cpu_time = r.own_cpu_time - dc
                           ELSE after = r]_vars

\* A region two deep that ran for 2 on the wall clock and 1 on the cpu clock
\* has just been popped: its parent's own times are -2 and -1, a third record
\* is as it was.
PopFrameWitness ==
    /\ op.kind = "pop" /\ op.raised = "none"
    /\ Len(ActivePath) = 1
    /\ Len(_nodes) = 3
    /\ \E k \in Keys :
          /\ Len(k) = 2 /\ Front(k) = ActivePath
          /\ RecordAt(k).time = 2 /\ RecordAt(k).cpu_time = 1
          /\ RecordAt(ActivePath).own_time = -2
          /\ RecordAt(ActivePath).own_cpu_time = -1

\* C15: the active stack is changed by pushes and pops only: a leaf-name
\* lookup, a view of the records, to_dict and clear() leave it as it was.
StackChangedOnlyByPushAndPop ==
    [][op'.kind \notin {"push", "pop"} => ActivePath' = ActivePath]_vars

\* The record the caller holds, as the caller reads it now: the record of a
\* node when the object held is that node's record, else the value returned.
Deref(h) ==
    IF h.alias # None /\ HasKey(_nodes, h.alias) THEN RecordAt(h.alias) ELSE h.value

\* C17: reads return snapshots.  timer[name], Timer.records and to_dict, flat
\* or not, leave the stack, the keys and every record as they were; and a
\* record that timer[name] or Timer.records returned reads the same after every
\* later push and pop, whether one or several call paths ended in its name.
ReadsReturnSnapshots ==
    [][/\ op'.kind \in {"getitem", "records", "to_dict"} =>
             _nodes' = _nodes /\ _watches' = _watches
       /\ held'.kind # "none" => Deref(held)' = held'.value
       /\ (held.kind # "none" /\ op'.kind \in {"push", "pop"}) =>
             held' = held /\ Deref(held)' = held.value]_vars

\* timer["a"] was kept when it summed two call paths to count 1 and time 1; a
\* pop has since brought the live records to count 2 and time 3 in all, and
\* the record kept still reads 1 and 1.
ReadsReturnSnapshotsWitness ==
    /\ held.kind = "record" /\ held.matched = 2
    /\ held.value.name = "a" /\ held.value.count = 1 /\ held.value.time = 1
    /\ op.kind = "pop" /\ op.raised = "none"
    /\ SumField(LeafSet("a"), "count") = 2
    /\ SumField(LeafSet("a"), "time") = 3
    /\ Deref(held).count = 1 /\ Deref(held).time = 1

\* C14: the name derived for an unnamed region is the same at every execution
\* of one call site and differs between any two call sites.
AutoNameStableAndDistinct ==
    \A x, y \in sited :
        /\ x.site = y.site => x.name = y.name
        /\ x.site # y.site => x.name # y.name

\* C13: the registry keeps the timers apart.  get_timer(name) creates the
\* Timer at the first call of a thread with the name and returns that same
\* Timer at the thread's later calls with it; the Timer it returns is under no
\* other name and in no other thread's dictionary; an entry of a dictionary
\* never changes; and a step changes the stack or the records of one Timer at
\* most, by a push or a pop made on that Timer.
RegistryIsolation ==
    [][/\ op'.kind = "get_timer" =>
             LET th == op'.thread
                 nm == op'.arg
                 t == result'.value
             IN  /\ _thread_local'[th][nm] = t /\ t # 0
                 /\ IF _thread_local[th][nm] # 0
                    THEN t = _thread_local[th][nm] /\ DOMAIN timers' = DOMAIN timers
                    ELSE /\ t \notin DOMAIN timers
                         /\ DOMAIN timers' = DOMAIN timers \cup {t}
                         /\ IF t = this' THEN _watches' = <<>> /\ _nodes' = <<>>
                            ELSE timers'[t] = Timer
                 /\ \A th2 \in Threads, nm2 \in TimerNames :
                       <<th2, nm2>> # <<th, nm>> => _thread_local'[th2][nm2] # t
       /\ \A th \in Threads, nm \in TimerNames :
             _thread_local[th][nm] # 0 => _thread_local'[th][nm] = _thread_local[th][nm]
       /\ \A id \in DOMAIN timers :
             TimerAt(id)' # TimerAt(id) =>
                 /\ op'.kind \in {"push", "pop"}
                 /\ id = this /\ this' = this
                 /\ \A other \in DOMAIN timers \ {id} : TimerAt(other)' = TimerAt(other)]_vars

\* The decorated function of timer "abc" was called inside an open region of
\* timer "def": "abc" holds the one record, at top level, counted once, "def"
\* its own open region, and the other thread's "abc" is another Timer.
RegistryIsolationWitness ==
    \E th, th2 \in Threads :
        LET abc == _thread_local[th]["abc"]
            def == _thread_local[th]["def"]
        IN  /\ abc # 0 /\ def # 0 /\ abc # def
            /\ th2 # th /\ _thread_local[th2]["abc"] \notin {0, abc, def}
            /\ TimerAt(abc).watches = <<>>
            /\ Len(TimerAt(abc).nodes) = 1
            /\ TimerAt(abc).nodes[1].stack = <<"a">>
            /\ TimerAt(abc).nodes[1].parent = None
            /\ TimerAt(abc).nodes[1].record.count = 1
            /\ Len(TimerAt(def).watches) = 1
            /\ Len(TimerAt(def).nodes) = 1
            /\ TimerAt(def).nodes[1].record.count = 0
            /\ TimerAt(_thread_local[th2]["abc"]).nodes = <<>>

====
